---- MODULE Spec2Model ----
(***************************************************************************)
(* The npm package cache of cli/npm/cache.rs: the sync-locked population   *)
(* protocol (with_folder_sync_lock), the run-scoped reload set and the two *)
(* install entry points ensure_package / ensure_copy_package, executed by  *)
(* concurrent tasks of one or two NpmCache instances over one cache root.  *)
(*                                                                         *)
(* Granularity: every filesystem call that changes the disk and every      *)
(* await point is a step of its own; the two reads of an existence check   *)
(* (folder exists, sync lock file exists) are taken together.              *)
(***************************************************************************)
EXTENDS Integers, FiniteSets, Sequences, TLC

\* number of files a population action writes into a package folder
NFiles == 2
\* number of ensure_* calls the tasks make in total
MaxCalls == 3

(***************************************************************************)
(* Strings: a string is a sequence of characters, a path a sequence of     *)
(* segments                                                                *)
(***************************************************************************)
\* the code of each character the model writes
Ascii ==
  "a" :> 97 @@ "b" :> 98 @@ "c" :> 99 @@ "d" :> 100 @@ "e" :> 101 @@
  "f" :> 102 @@ "g" :> 103 @@ "h" :> 104 @@ "i" :> 105 @@ "j" :> 106 @@
  "k" :> 107 @@ "l" :> 108 @@ "m" :> 109 @@ "n" :> 110 @@ "o" :> 111 @@
  "p" :> 112 @@ "q" :> 113 @@ "r" :> 114 @@ "s" :> 115 @@ "t" :> 116 @@
  "u" :> 117 @@ "v" :> 118 @@ "w" :> 119 @@ "x" :> 120 @@ "y" :> 121 @@
  "z" :> 122 @@ "A" :> 65 @@ "B" :> 66 @@ "C" :> 67 @@ "D" :> 68 @@
  "E" :> 69 @@ "F" :> 70 @@ "G" :> 71 @@ "H" :> 72 @@ "I" :> 73 @@
  "J" :> 74 @@ "K" :> 75 @@ "L" :> 76 @@ "M" :> 77 @@ "N" :> 78 @@
  "O" :> 79 @@ "P" :> 80 @@ "Q" :> 81 @@ "R" :> 82 @@ "S" :> 83 @@
  "T" :> 84 @@ "U" :> 85 @@ "V" :> 86 @@ "W" :> 87 @@ "X" :> 88 @@
  "Y" :> 89 @@ "Z" :> 90 @@ "0" :> 48 @@ "1" :> 49 @@ "2" :> 50 @@
  "3" :> 51 @@ "4" :> 52 @@ "5" :> 53 @@ "6" :> 54 @@ "7" :> 55 @@
  "8" :> 56 @@ "9" :> 57 @@ "@" :> 64 @@ "/" :> 47 @@ "." :> 46 @@
  "_" :> 95 @@ "-" :> 45 @@ "+" :> 43 @@ "=" :> 61

Char == DOMAIN Ascii

\* the character of each byte, "?" for a byte the model has no character
\* for, tabulated
Bytes == 0..255
CharOfByte ==
  [b \in Bytes |-> IF \E c \in Char : Ascii[c] = b
                     THEN CHOOSE c \in Char : Ascii[c] = b
                     ELSE "?"] @@ <<>>

Chr(b) == CharOfByte[b]

Ord(c) == IF c \in Char THEN Ascii[c] ELSE Ascii["="] + 2

IsUpper(c) == Ord(c) >= Ascii["A"] /\ Ord(c) <= Ascii["Z"]
IsLower(c) == Ord(c) >= Ascii["a"] /\ Ord(c) <= Ascii["z"]
IsDigit(c) == Ord(c) >= Ascii["0"] /\ Ord(c) <= Ascii["9"]

\* char::to_lowercase / u8::to_ascii_uppercase on the characters of the
\* model, tabulated
LowerOf ==
  [c \in Char |-> IF IsUpper(c)
                    THEN Chr(Ord(c) + (Ascii["a"] - Ascii["A"])) ELSE c] @@ <<>>
UpperOf ==
  [c \in Char |-> IF IsLower(c)
                    THEN Chr(Ord(c) - (Ascii["a"] - Ascii["A"])) ELSE c] @@ <<>>

lower(c) == IF c \in Char THEN LowerOf[c] ELSE c
upper(c) == IF c \in Char THEN UpperOf[c] ELSE c

\* str::to_lowercase
to_lowercase(s) == [i \in 1..Len(s) |-> lower(s[i])]

starts_with(s, prefix) ==
  Len(s) >= Len(prefix) /\ SubSeq(s, 1, Len(prefix)) = prefix

\* positions of character c in s
Positions(s, c) == {i \in 1..Len(s) : s[i] = c}

\* str::split(c): the pieces of s between the occurrences of c
RECURSIVE split(_, _)
split(s, c) ==
  IF Positions(s, c) = {}
    THEN <<s>>
    ELSE LET i == CHOOSE j \in Positions(s, c) : \A k \in Positions(s, c) : j <= k
         IN <<SubSeq(s, 1, i - 1)>> \o split(SubSeq(s, i + 1, Len(s)), c)

\* [String]::join(sep)
RECURSIVE join(_, _)
join(parts, sep) ==
  IF Len(parts) = 0 THEN <<>>
  ELSE IF Len(parts) = 1 THEN parts[1]
  ELSE parts[1] \o sep \o join(Tail(parts), sep)

\* u8 / u64 Display: decimal without leading zeros
RECURSIVE decimal(_)
decimal(n) ==
  IF n < 10 THEN <<Chr(Ascii["0"] + n)>>
  ELSE decimal(n \div 10) \o <<Chr(Ascii["0"] + (n % 10))>>

\* the value of a string of digits
RECURSIVE digits_value(_)
digits_value(s) ==
  IF Len(s) = 0 THEN 0
  ELSE 10 * digits_value(SubSeq(s, 1, Len(s) - 1)) + (Ord(s[Len(s)]) - Ascii["0"])

AllDigits(s) == Len(s) > 0 /\ \A i \in 1..Len(s) : IsDigit(s[i])

Pow2(n) == IF n = 0 THEN 1 ELSE IF n = 1 THEN 2 ELSE IF n = 2 THEN 4
           ELSE IF n = 3 THEN 8 ELSE IF n = 4 THEN 16 ELSE IF n = 5 THEN 32
           ELSE IF n = 6 THEN 64 ELSE 128

(***************************************************************************)
(* base32, RFC 4648 alphabet, no padding                                   *)
(***************************************************************************)
RFC4648 == <<"A","B","C","D","E","F","G","H","I","J","K","L","M","N","O","P",
             "Q","R","S","T","U","V","W","X","Y","Z","2","3","4","5","6","7">>

\* bit i (from 1, most significant first) of a sequence of w-bit values
BitAt(values, w, i) ==
  LET k == (i - 1) \div w + 1
      off == (i - 1) % w
  IN IF k > Len(values) THEN 0
     ELSE (values[k] \div Pow2(w - 1 - off)) % 2

\* the v-bit value that starts at bit 1 + v * (j - 1) of the w-bit values
Regroup(values, w, v, j) ==
  LET b(k) == BitAt(values, w, v * (j - 1) + k) IN
  IF v = 5
    THEN 16 * b(1) + 8 * b(2) + 4 * b(3) + 2 * b(4) + b(5)
    ELSE 128 * b(1) + 64 * b(2) + 32 * b(3) + 16 * b(4)
         + 8 * b(5) + 4 * b(6) + 2 * b(7) + b(8)

\* base32::encode(Alphabet::RFC4648 { padding: false }, data)
base32_encode(data) ==
  LET bytes == [i \in 1..Len(data) |-> Ord(data[i])]
      n == (8 * Len(data) + 4) \div 5
  IN [j \in 1..n |-> RFC4648[Regroup(bytes, 8, 5, j) + 1]]

\* the value of each character in the alphabet, in either case, -1 outside
Base32ValueOf ==
  [c \in Char |->
     IF \E i \in DOMAIN RFC4648 : RFC4648[i] = upper(c)
       THEN (CHOOSE i \in DOMAIN RFC4648 : RFC4648[i] = upper(c)) - 1
       ELSE -1] @@ <<>>

Base32Value(c) == IF c \in Char THEN Base32ValueOf[c] ELSE -1

None == <<"None">>
Some(x) == <<"Some", x>>
IsSome(o) == o[1] = "Some"

\* base32::decode(Alphabet::RFC4648 { padding: false }, data): the bytes, or
\* None for a character outside the alphabet (either case is accepted)
base32_decode(data) ==
  IF \E i \in 1..Len(data) : Base32Value(data[i]) = -1
    THEN None
    ELSE LET values == [i \in 1..Len(data) |-> Base32Value(data[i])]
             n == (Len(data) * 5) \div 8
         IN Some([j \in 1..n |-> Regroup(values, 5, 8, j)])

\* String::from_utf8(bytes).ok(), for bytes of one-byte characters
from_utf8(bytes) ==
  IF \E i \in 1..Len(bytes) : bytes[i] >= 128
    THEN None
    ELSE Some([i \in 1..Len(bytes) |-> Chr(bytes[i])])

mixed_case_package_name_encode(name) == to_lowercase(base32_encode(name))

mixed_case_package_name_decode(name) ==
  LET b == base32_decode(name) IN
  IF IsSome(b) THEN from_utf8(b[2]) ELSE None

(***************************************************************************)
(* Package identities and the directory layout of the cache root           *)
(***************************************************************************)
\* deno_semver::Version, without pre-release and build parts
Version(major, minor, patch) == [major |-> major, minor |-> minor, patch |-> patch]

\* Version's Display, as package.version.to_string() and format!("{}_{}") use it
version_to_string(v) ==
  decimal(v.major) \o <<".">> \o decimal(v.minor) \o <<".">> \o decimal(v.patch)

\* Version::parse_from_npm(text).ok(): three dot-separated numbers
parse_from_npm(text) ==
  LET nums == split(text, ".") IN
  IF Len(nums) = 3 /\ \A i \in 1..3 : AllDigits(nums[i])
    THEN Some(Version(digits_value(nums[1]), digits_value(nums[2]),
                      digits_value(nums[3])))
    ELSE None

\* str::parse::<u8>().ok(): digits after an optional "+", at most u8::MAX
U8Max == 255
parse_u8(text) ==
  LET digits == IF starts_with(text, <<"+">>) THEN Tail(text) ELSE text IN
  IF AllDigits(digits) /\ digits_value(digits) <= U8Max
    THEN Some(digits_value(digits))
    ELSE None

\* str::split_once(c): the text before and after the first c
split_once(s, c) ==
  IF Positions(s, c) = {}
    THEN None
    ELSE LET i == CHOOSE j \in Positions(s, c) : \A k \in Positions(s, c) : j <= k
         IN Some(<<SubSeq(s, 1, i - 1), SubSeq(s, i + 1, Len(s))>>)

\* ReadonlyNpmCache.root_dir: the npm folder of the DENO_DIR
root_dir == <<<<"n","p","m">>>>

\* the registry of the tests, https://registry.npmjs.org/
NpmRegistry == [scheme |-> "https", host |-> <<"r","e","g","i","s","t","r","y",".","n","p","m","j","s",".","o","r","g">>]

\* crate::util::path::root_url_to_safe_local_dirname, for a URL that has
\* neither a port nor a path
root_url_to_safe_local_dirname(root) == root.host

registry_folder(registry_url) ==
  root_dir \o <<root_url_to_safe_local_dirname(registry_url)>>

\* the layout without the underscore before an encoded name
package_name_folder_NoUnderscore(name, registry_url) ==
  LET dir == registry_folder(registry_url) IN
  IF to_lowercase(name) # name
    THEN dir \o <<mixed_case_package_name_encode(name)>>
    ELSE dir \o split(name, "/")

package_name_folder(name, registry_url) ==
  LET dir == registry_folder(registry_url) IN
  IF to_lowercase(name) # name
    THEN dir \o <<(<<"_">> \o mixed_case_package_name_encode(name))>>
    ELSE dir \o split(name, "/")

package_folder_for_name_and_version(package, registry_url) ==
  package_name_folder(package.name, registry_url)
    \o <<version_to_string(package.version)>>

\* a lookup that takes every identity for the first copy
package_folder_for_id_FirstCopy(folder_id, registry_url) ==
  package_folder_for_name_and_version(folder_id.nv, registry_url)

package_folder_for_id(folder_id, registry_url) ==
  IF folder_id.copy_index = 0
    THEN package_folder_for_name_and_version(folder_id.nv, registry_url)
    ELSE package_name_folder(folder_id.nv.name, registry_url)
           \o <<(version_to_string(folder_id.nv.version) \o <<"_">>
                 \o decimal(folder_id.copy_index))>>

(***************************************************************************)
(* From a module specifier back to the folder identity                     *)
(***************************************************************************)
\* a file: URL of a path, or a URL of another scheme
Url(scheme, path) == [scheme |-> scheme, path |-> path]

\* Url::from_file_path / ModuleSpecifier of a file below a folder
from_file_path(path) == Url("file", path)

\* the number of leading segments two paths share
RECURSIVE CommonPrefix(_, _)
CommonPrefix(a, b) ==
  IF Len(a) = 0 \/ Len(b) = 0 \/ Head(a) # Head(b)
    THEN 0
    ELSE 1 + CommonPrefix(Tail(a), Tail(b))

RECURSIVE ParentDirs(_)
ParentDirs(n) == IF n = 0 THEN <<>> ELSE <<".", ".", "/">> \o ParentDirs(n - 1)

\* Url::make_relative of a directory URL: None across schemes, else "../"
\* for every directory of the base the URL is not under, then the rest of the
\* URL's path
make_relative(base_dir, url) ==
  IF url.scheme # "file"
    THEN None
    ELSE LET dirs == SubSeq(url.path, 1, Len(url.path) - 1)
             k == CommonPrefix(base_dir, dirs)
         IN Some(ParentDirs(Len(base_dir) - k)
                   \o join(SubSeq(url.path, k + 1, Len(url.path)), <<"/">>))

\* a resolver that takes every package for an unscoped one
name_parts_taken_Unscoped(relative_url) == 2

\* .take(if is_scoped_package { 3 } else { 2 })
name_parts_taken(relative_url) ==
  IF starts_with(relative_url, <<"@">>) THEN 3 ELSE 2

\* a resolver without the check on the number of parts
too_few_parts_Unchecked(parts) == FALSE

\* parts.len() < 2
too_few_parts(parts) == Len(parts) < 2

\* the relative URL with an encoded first part decoded, None when that part
\* is not base32
decode_first_part(relative_url) ==
  IF starts_with(relative_url, <<"_">>)
    THEN LET parts == split(Tail(relative_url), "/")
             part == mixed_case_package_name_decode(parts[1])
         IN IF IsSome(part)
              THEN Some(join(<<part[2]>> \o Tail(parts), <<"/">>))
              ELSE None
    ELSE Some(relative_url)

\* the identity a relative URL names, from the split into parts on
resolve_relative_url(relative_url) ==
  LET all == split(relative_url, "/")
      n == name_parts_taken(relative_url)
      parts == SubSeq(all, 1, IF Len(all) < n THEN Len(all) ELSE n)
  IN
  IF too_few_parts(parts) THEN None
  ELSE
    LET version_part == parts[Len(parts)]
        name == join(SubSeq(parts, 1, Len(parts) - 1), <<"/">>)
        halves == split_once(version_part, "_")
        version_text == IF IsSome(halves) THEN halves[2][1] ELSE version_part
        copy_index == IF IsSome(halves) THEN parse_u8(halves[2][2]) ELSE Some(0)
        version == parse_from_npm(version_text)
    IN IF IsSome(copy_index) /\ IsSome(version)
         THEN Some([nv |-> [name |-> name, version |-> version[2]],
                    copy_index |-> copy_index[2]])
         ELSE None

maybe_resolve_package_folder_id_from_specifier(specifier, registry_url) ==
  LET registry_root_dir == registry_folder(registry_url)
      relative_url == make_relative(registry_root_dir, specifier)
  IN
  IF ~IsSome(relative_url) THEN None
  ELSE IF starts_with(relative_url[2], <<".", ".", "/">>) THEN None
  ELSE LET decoded == decode_first_part(relative_url[2]) IN
       IF IsSome(decoded) THEN resolve_relative_url(decoded[2]) ELSE None

Ok(x) == <<"Ok", x>>
Err(message, about) == <<"Err", message, about>>
IsOk(r) == r[1] = "Ok"
IsErr(r) == r[1] = "Err"

\* Some(id) => Ok(id), None => bail!("could not find npm package for '{}'")
resolve_package_folder_id_from_specifier(specifier, registry_url) ==
  LET id == maybe_resolve_package_folder_id_from_specifier(specifier, registry_url)
  IN IF IsSome(id)
       THEN Ok(id[2])
       ELSE Err("could not find npm package for", specifier)

(***************************************************************************)
(* The tasks, the runs and the folders of the population protocol          *)
(***************************************************************************)
Files == 1..NFiles
Tasks == {"t1", "t2"}
Runs == {"run1", "run2"}
CacheSettings == {"Only", "Use", "ReloadAll"}
Packages == {[name |-> <<"j","s","o","n">>, version |-> Version(1, 2, 5)]}
CopyIndexes == {0, 1}
FolderIds == [nv : Packages, copy_index : CopyIndexes]

NoVersion == Version(-1, -1, -1)
NoPkg == [name |-> <<>>, version |-> NoVersion]
NoFolder == [nv |-> NoPkg, copy_index |-> 0]
NoPath == <<>>

\* the folders of the packages and of the identities under the registry of
\* the run, tabulated
PackageFolder ==
  [nv \in Packages |-> package_folder_for_name_and_version(nv, NpmRegistry)]
    @@ <<>>
FolderPath ==
  [f \in FolderIds |-> package_folder_for_id(f, NpmRegistry)] @@ <<>>
CacheFolders == {FolderPath[f] : f \in FolderIds}

VARIABLES
  fs,                            \* the cache root: folder path -> directory state
  cache_setting,                 \* NpmCache.cache_setting of each run
  previously_reloaded_packages,  \* NpmCache.previously_reloaded_packages of each run
  run,                           \* the NpmCache instance each task calls into
  pc,                            \* position of each task inside its call
  op,                            \* the entry point the task is in
  folder,                        \* the folder identity the task's call is about
  written,                       \* files the task's population action has written
  err,                           \* the error inner() returned to with_folder_sync_lock
  result,                        \* what the task's last call returned
  calls,                         \* calls started so far
  found_sync_lock,               \* whether the call found a sync lock file in its folder
  fetches,                       \* downloads started, per run and package
  codec,                         \* a folder lookup and a specifier resolution
  compile                        \* an output path of `deno compile`

cacheVars == <<fs, cache_setting, previously_reloaded_packages, run, pc, op,
               folder, written, err, result, calls, found_sync_lock, fetches>>

vars == <<fs, cache_setting, previously_reloaded_packages, run, pc, op,
          folder, written, err, result, calls, found_sync_lock, fetches,
          codec, compile>>

(***************************************************************************)
(* The filesystem                                                          *)
(***************************************************************************)
AbsentDir == [exists |-> FALSE, sync_lock |-> FALSE, files |-> {}]

\* the existence check without its second half
FolderIsValid_IgnoringSyncLock(d) == d.exists

\* package_folder.exists() && !package_folder.join(SYNC_LOCK).exists()
FolderIsValid(d) == d.exists /\ ~d.sync_lock

\* every file of the package is in the folder
FullyPopulated(d) == d.files = Files

\* output_folder of the population the task is in
output_folder(p) ==
  IF folder[p] \in FolderIds THEN FolderPath[folder[p]] ELSE NoPath

(***************************************************************************)
(* Results                                                                 *)
(***************************************************************************)
\* status: ok / err / panic; kind: which return or which error; cause and io:
\* the failed step and its io::ErrorKind; remove_err: a failed cleanup is
\* reported too; message_package, message_folder: what the message names;
\* context: the package of an added with_context
NoResult ==
  [status |-> "none", kind |-> "none", cause |-> "none", io |-> "none",
   remove_err |-> FALSE,
   message_package |-> NoPkg, message_folder |-> NoPath, context |-> NoPkg]

NoErr == [kind |-> "none", io |-> "none"]

OkResult(how) == [NoResult EXCEPT !.status = "ok", !.kind = how]

ErrResult(kind, mpkg, mfolder) ==
  [NoResult EXCEPT !.status = "err", !.kind = kind, !.cause = kind,
                   !.message_package = mpkg, !.message_folder = mfolder]

\* assert_ne! unwinds the caller
PanicResult == [NoResult EXCEPT !.status = "panic", !.kind = "assert_ne"]

\* .with_context(|| format!("Failed caching npm package '{package}'."))
with_context(res, nv) ==
  IF res.status = "err" THEN [res EXCEPT !.context = nv] ELSE res

\* the error inner() produced, as with_folder_sync_lock hands it on: the
\* messages of create_dir_all and of the sync lock file name the folder
InnerError(e, f) ==
  [ErrResult(e.kind, NoPkg, IF e.kind = "Action" THEN NoPath ELSE f)
     EXCEPT !.io = e.io]

\* "Failed setting up package cache directory for {}, then failed cleaning it up"
CleanupFailure(e, nv, f) ==
  [ErrResult("CleanupFailed", nv, f)
     EXCEPT !.cause = e.kind, !.io = e.io, !.remove_err = TRUE]

\* what the entry point makes of an error of the protocol: ensure_package
\* adds its context, ensure_copy_package passes it on with `?`
Surface(p, res) ==
  IF op[p] = "ensure_package" THEN with_context(res, folder[p].nv) ELSE res

(***************************************************************************)
(* Cache policy                                                            *)
(***************************************************************************)
should_use_for_npm_package(setting, name) == setting \in {"Only", "Use"}

\* the cache-only branch left out
is_cache_only_Never(setting) == FALSE

\* self.cache_setting == CacheSetting::Only
is_cache_only(setting) == setting = "Only"

\* a check that does not look at the packages reloaded before
should_use_global_cache_for_package_PolicyOnly(r, nv) ==
  should_use_for_npm_package(cache_setting[r], nv.name)

should_use_global_cache_for_package(r, nv) ==
  \/ should_use_for_npm_package(cache_setting[r], nv.name)
  \/ nv \in previously_reloaded_packages[r]

\* a check that forgets the package it was asked about
reloaded_after_NoInsert(r, nv) == previously_reloaded_packages[r]

\* the set after the call: insert() runs only when the policy said no
reloaded_after(r, nv) ==
  IF should_use_for_npm_package(cache_setting[r], nv.name)
    THEN previously_reloaded_packages[r]
    ELSE previously_reloaded_packages[r] \cup {nv}

(***************************************************************************)
(* Initial state                                                           *)
(***************************************************************************)
ValidDir == [exists |-> TRUE, sync_lock |-> FALSE, files |-> Files]
\* what a cancelled or crashed population left behind
StaleDir == [exists |-> TRUE, sync_lock |-> TRUE, files |-> {1}]

NoUrl == Url("none", <<>>)

\* no folder was looked up and no specifier resolved
NoCodec ==
  [stage |-> "start", folder_id |-> NoFolder, package_folder |-> NoPath,
   specifier |-> NoUrl, found |-> <<"none">>, resolved |-> <<"none">>]

\* no output path was asked for
NoCompile ==
  [stage |-> "start", output |-> <<>>, target |-> <<"None">>, windows |-> FALSE,
   filepath |-> <<>>, again |-> <<>>]

Init ==
  /\ codec = NoCodec
  /\ compile = NoCompile
  /\ fs \in [CacheFolders -> {AbsentDir, ValidDir, StaleDir}]
  /\ cache_setting \in [Runs -> CacheSettings]
  /\ previously_reloaded_packages = [r \in Runs |-> {}]
  \* both tasks in one NpmCache, or one task in each of two processes
  /\ run \in {[p \in Tasks |-> "run1"],
              [p \in Tasks |-> IF p = "t1" THEN "run1" ELSE "run2"]}
  /\ (\A p \in Tasks : run[p] = "run1")
        => cache_setting["run2"] = cache_setting["run1"]
  /\ pc = [p \in Tasks |-> "idle"]
  /\ op = [p \in Tasks |-> "none"]
  /\ folder = [p \in Tasks |-> NoFolder]
  /\ written = [p \in Tasks |-> 0]
  /\ err = [p \in Tasks |-> NoErr]
  /\ result = [p \in Tasks |-> NoResult]
  /\ calls = 0
  /\ found_sync_lock = [p \in Tasks |-> FALSE]
  /\ fetches = [r \in Runs |-> [nv \in Packages |-> 0]]

\* a call returns: the task is idle again and holds the result
Return(p, res) ==
  /\ pc' = [pc EXCEPT ![p] = "idle"]
  /\ result' = [result EXCEPT ![p] = res]
  /\ written' = [written EXCEPT ![p] = 0]
  /\ err' = [err EXCEPT ![p] = NoErr]

Goto(p, label) ==
  /\ pc' = [pc EXCEPT ![p] = label]
  /\ UNCHANGED <<result, written, err>>

\* a task calls an entry point on a folder: the previous result is gone
Enter(p, entry, folder_id) ==
  /\ pc[p] = "idle"
  /\ calls < MaxCalls
  /\ calls' = calls + 1
  /\ pc' = [pc EXCEPT ![p] = entry]
  /\ op' = [op EXCEPT ![p] = entry]
  /\ folder' = [folder EXCEPT ![p] = folder_id]
  /\ result' = [result EXCEPT ![p] = NoResult]
  /\ found_sync_lock' = [found_sync_lock EXCEPT ![p] = fs[FolderPath[folder_id]].sync_lock]
  /\ UNCHANGED <<fs, cache_setting, previously_reloaded_packages, run,
                 written, err, fetches, codec, compile>>

(***************************************************************************)
(* ensure_package                                                          *)
(***************************************************************************)
call_ensure_package(p, nv) ==
  /\ nv \in Packages
  /\ Enter(p, "ensure_package", [nv |-> nv, copy_index |-> 0])

\* ensure_package_inner up to the download, and ensure_package's with_context
ensure_package_inner(p) ==
  LET r == run[p]
      nv == folder[p].nv
      package_folder == PackageFolder[nv]
  IN
  /\ pc[p] = "ensure_package"
  /\ previously_reloaded_packages' =
       [previously_reloaded_packages EXCEPT ![r] = reloaded_after(r, nv)]
  /\ IF should_use_global_cache_for_package(r, nv)
          /\ FolderIsValid(fs[package_folder])
       THEN /\ Return(p, OkResult("cache_hit"))
            /\ UNCHANGED fetches
       ELSE IF is_cache_only(cache_setting[r])
         THEN /\ Return(p, with_context(
                     ErrResult("NotCached", [nv EXCEPT !.version = NoVersion], NoPath),
                     nv))
              /\ UNCHANGED fetches
         ELSE /\ Goto(p, "fetch")
              /\ fetches' = [fetches EXCEPT ![r][nv] = @ + 1]
  /\ UNCHANGED <<fs, cache_setting, run, op, folder, calls, found_sync_lock,
                 codec, compile>>

\* verify_and_extract_tarball(package, &bytes, dist, &package_folder): runs
\* with_folder_sync_lock on the package folder, its action verifying and
\* extracting the archive
verify_and_extract_tarball(p) == Goto(p, "create_dir")

\* a download that creates the package folder before it has the bytes
download_with_progress_IntoFolder(p) ==
  /\ pc[p] = "fetch"
  /\ fs' = [fs EXCEPT ![output_folder(p)].exists = TRUE]
  /\ \E outcome \in {"bytes", "none", "error"} :
       CASE outcome = "bytes" -> verify_and_extract_tarball(p)
         [] outcome = "none" ->
              Return(p, with_context(ErrResult("NoTarball", NoPkg, NoPath),
                                     folder[p].nv))
         [] outcome = "error" ->
              Return(p, with_context(ErrResult("Fetch", NoPkg, NoPath),
                                     folder[p].nv))
  /\ UNCHANGED <<cache_setting, previously_reloaded_packages, run, op,
                 folder, calls, found_sync_lock, fetches, codec, compile>>

\* http_client.download_with_progress(..).await and the match on its result
download_with_progress(p) ==
  /\ pc[p] = "fetch"
  /\ \E outcome \in {"bytes", "none", "error"} :
       CASE outcome = "bytes" -> verify_and_extract_tarball(p)
         [] outcome = "none" ->
              Return(p, with_context(ErrResult("NoTarball", NoPkg, NoPath),
                                     folder[p].nv))
         [] outcome = "error" ->
              Return(p, with_context(ErrResult("Fetch", NoPkg, NoPath),
                                     folder[p].nv))
  /\ UNCHANGED <<fs, cache_setting, previously_reloaded_packages, run, op,
                 folder, calls, found_sync_lock, fetches, codec, compile>>

(***************************************************************************)
(* ensure_copy_package                                                     *)
(***************************************************************************)
\* the caller's side of "This assumes that the original package folder being
\* hard linked from exists before this is called": the index-0 folder passes
\* the existence check when a copy of it is asked for
OriginalIsThere(folder_id) ==
  FolderIsValid(fs[PackageFolder[folder_id.nv]])

\* the assertion compiled out
assert_ne_Skipped(left, right) == TRUE

\* assert_ne!(left, right) passes
assert_ne(left, right) == left # right

call_ensure_copy_package(p, folder_id) ==
  /\ folder_id.copy_index # 0 => OriginalIsThere(folder_id)
  /\ Enter(p, "ensure_copy_package", folder_id)

ensure_copy_package(p) ==
  LET r == run[p]
      folder_id == folder[p]
      package_folder == FolderPath[folder_id]
  IN
  /\ pc[p] = "ensure_copy_package"
  /\ IF ~assert_ne(folder_id.copy_index, 0)
       THEN Return(p, PanicResult)
       ELSE IF /\ FolderIsValid(fs[package_folder])
               /\ should_use_for_npm_package(cache_setting[r], folder_id.nv.name)
         THEN Return(p, OkResult("cache_hit"))
         ELSE Goto(p, "create_dir")
  /\ UNCHANGED <<fs, cache_setting, previously_reloaded_packages, run, op,
                 folder, calls, found_sync_lock, fetches, codec, compile>>

(***************************************************************************)
(* with_folder_sync_lock                                                   *)
(***************************************************************************)
protocolFrame == <<cache_setting, previously_reloaded_packages, run, op,
                   folder, calls, found_sync_lock, fetches, codec, compile>>

\* the error handed straight to the caller, without the cleanup
Fail_NoCleanup(p, kind, io) ==
  Return(p, Surface(p, InnerError([kind |-> kind, io |-> io], output_folder(p))))

\* inner() returns Err: the failed step and the io::ErrorKind it failed with
Fail(p, kind, io) ==
  /\ pc' = [pc EXCEPT ![p] = "cleanup"]
  /\ err' = [err EXCEPT ![p] = [kind |-> kind, io |-> io]]
  /\ UNCHANGED <<result, written>>

\* fs::create_dir_all(output_folder)
create_dir_all(p) ==
  /\ pc[p] = "create_dir"
  /\ \/ /\ fs' = [fs EXCEPT ![output_folder(p)].exists = TRUE]
        /\ Goto(p, "sync_lock")
     \/ /\ Fail(p, "CreateDir", "Other")
        /\ UNCHANGED fs
  /\ UNCHANGED protocolFrame

\* create_new(true) in place of create(true): an existing file is an error
open_create_new(d) ==
  IF ~d.exists THEN "NotFound"
  ELSE IF d.sync_lock THEN "AlreadyExists" ELSE "none"

\* OpenOptions::new().write(true).create(true): the io::ErrorKind the open
\* of the sync lock file in directory d ends with for that reason alone;
\* an existing file is opened
open_create(d) == IF d.exists THEN "none" ELSE "NotFound"

\* fs::OpenOptions::new().write(true).create(true).open(&sync_lock_path)
open_sync_lock(p) ==
  /\ pc[p] = "sync_lock"
  /\ \/ /\ open_create(fs[output_folder(p)]) = "none"
        /\ fs' = [fs EXCEPT ![output_folder(p)].sync_lock = TRUE]
        /\ Goto(p, "action")
     \/ /\ open_create(fs[output_folder(p)]) # "none"
        /\ Fail(p, "SyncLock", open_create(fs[output_folder(p)]))
        /\ UNCHANGED fs
     \/ /\ Fail(p, "SyncLock", "Other")
        /\ UNCHANGED fs
  /\ UNCHANGED protocolFrame

\* the files of directory d once the extraction has written file k
extract_file(d, k) == d.files \cup {k}

\* hard_link_dir_recursive(&original_package_folder, &package_folder) at file
\* k: linked into d when the original has it
hard_link_file(d, original, k) ==
  IF k \in original.files THEN d.files \cup {k} ELSE d.files

\* action()?, one file at a time: extracted from the downloaded bytes
\* (ensure_package) or hard linked from the index-0 folder
\* (ensure_copy_package); it fails when a directory it needs is gone and can
\* fail with an I/O error at any file
action_step(p) ==
  LET k == written[p] + 1
      original == fs[PackageFolder[folder[p].nv]]
  IN
  /\ pc[p] = "action"
  /\ written[p] < NFiles
  /\ \/ /\ fs[output_folder(p)].exists
        /\ op[p] = "ensure_package"
        /\ fs' = [fs EXCEPT ![output_folder(p)].files = extract_file(fs[output_folder(p)], k)]
        /\ pc' = pc
        /\ written' = [written EXCEPT ![p] = k]
        /\ UNCHANGED <<result, err>>
     \/ /\ fs[output_folder(p)].exists
        /\ op[p] = "ensure_copy_package"
        /\ original.exists
        /\ fs' = [fs EXCEPT ![output_folder(p)].files =
                     hard_link_file(fs[output_folder(p)], original, k)]
        /\ pc' = pc
        /\ written' = [written EXCEPT ![p] = k]
        /\ UNCHANGED <<result, err>>
     \/ /\ ~fs[output_folder(p)].exists \/ (op[p] = "ensure_copy_package" /\ ~original.exists)
        /\ Fail(p, "Action", "NotFound")
        /\ UNCHANGED fs
     \/ /\ Fail(p, "Action", "Other")
        /\ UNCHANGED fs
  /\ UNCHANGED protocolFrame

\* action() returned Ok: let _ignore = std::fs::remove_file(&sync_lock_path)
remove_sync_lock(p) ==
  /\ pc[p] = "action"
  /\ written[p] = NFiles
  /\ \/ fs' = [fs EXCEPT ![output_folder(p)].sync_lock = FALSE]
     \/ /\ fs[output_folder(p)].sync_lock
        /\ UNCHANGED fs
  /\ Return(p, OkResult("populated"))
  /\ UNCHANGED protocolFrame

\* inner() returned Err(err): fs::remove_dir_all(output_folder)
remove_dir_all(p) ==
  /\ pc[p] = "cleanup"
  /\ \/ /\ fs' = [fs EXCEPT ![output_folder(p)] = AbsentDir]
        /\ Return(p, Surface(p, InnerError(err[p], output_folder(p))))
     \/ /\ fs[output_folder(p)].exists
        /\ UNCHANGED fs
        /\ Return(p, Surface(p, CleanupFailure(err[p], folder[p].nv, output_folder(p))))
  /\ UNCHANGED protocolFrame

(***************************************************************************)
(* Specifications                                                          *)
(***************************************************************************)
Next ==
  \/ \E p \in Tasks, nv \in Packages : call_ensure_package(p, nv)
  \/ \E p \in Tasks : ensure_package_inner(p)
  \/ \E p \in Tasks : download_with_progress(p)
  \/ \E p \in Tasks, folder_id \in FolderIds : call_ensure_copy_package(p, folder_id)
  \/ \E p \in Tasks : ensure_copy_package(p)
  \/ \E p \in Tasks : create_dir_all(p)
  \/ \E p \in Tasks : open_sync_lock(p)
  \/ \E p \in Tasks : action_step(p)
  \/ \E p \in Tasks : remove_sync_lock(p)
  \/ \E p \in Tasks : remove_dir_all(p)

\* tasks of two runs, or of one, interleaved
Spec == Init /\ [][Next]_vars

\* one task making its calls one after the other, nobody else at the cache
SeqTask == "t1"

NextSeq ==
  \/ \E nv \in Packages : call_ensure_package(SeqTask, nv)
  \/ ensure_package_inner(SeqTask)
  \/ download_with_progress(SeqTask)
  \/ \E folder_id \in FolderIds : call_ensure_copy_package(SeqTask, folder_id)
  \/ ensure_copy_package(SeqTask)
  \/ create_dir_all(SeqTask)
  \/ open_sync_lock(SeqTask)
  \/ action_step(SeqTask)
  \/ remove_sync_lock(SeqTask)
  \/ remove_dir_all(SeqTask)

SpecSeq == Init /\ [][NextSeq]_vars

(***************************************************************************)
(* The path functions at work: a folder is looked up for an identity and a *)
(* specifier of a file in it is resolved, or some other specifier is       *)
(***************************************************************************)
\* the largest copy index below u8::MAX the lookups use
MaxCopyIndex == 2
\* the number of path segments of a specifier that no lookup produced
MaxSegments == 3

CodecNames ==
  {<<"j","s","o","n">>,
   <<"@","t","y","p","e","s","/","j","s","o","n">>,
   <<"J","S","O","N">>,
   <<"@","t","y","p","e","s","/","J","S","O","N">>,
   <<"j","j","j","u","6","t","q">>,
   <<"a","_","b">>}
CodecVersions == {Version(1, 2, 5), Version(2, 1, 5), Version(10, 0, 21)}
CodecCopyIndexes == 0..MaxCopyIndex \cup {U8Max}
CodecFolderIds ==
  [nv : [name : CodecNames, version : CodecVersions],
   copy_index : CodecCopyIndexes]

\* where in a package folder the file of a specifier is: the folder itself,
\* as file and as directory URL, a file in it and a file further down
Belows == {<<>>, <<(<<>>)>>, <<<<"i","n","d","e","x",".","j","s">>>>, <<<<"l","i","b">>, <<"i","n","d","e","x",".","j","s">>>>}

\* the segments of the other specifiers
Segments ==
  {<<"j","s","o","n">>,
   <<"@","t","y","p","e","s">>,
   <<"_","j","j","j","u","6","t","q">>,
   <<"_","i","b","2","h","s","4","d","f","o","m","x","u","u","u","2","p","j","y">>,
   <<"_","a","1">>,
   <<"_">>,
   <<"1",".","2",".","5">>,
   <<"1",".","2",".","5","_","1">>,
   <<"1",".","2",".","5","_","2","5","6">>,
   <<"1",".","2",".","5","_","x">>,
   <<"1",".","2",".","5","_","1","_","2">>,
   <<"x",".","y">>,
   <<>>}

RECURSIVE SegmentLists(_)
SegmentLists(n) ==
  IF n = 0 THEN {<<>>}
  ELSE LET shorter == SegmentLists(n - 1) IN
       shorter \cup {Append(l, seg) : l \in {x \in shorter : Len(x) = n - 1},
                                     seg \in Segments}

\* specifiers inside the registry folder, beside it, and not of a file
OtherSpecifiers ==
  {Url("file", dir \o l) : dir \in {registry_folder(NpmRegistry),
                                    root_dir \o <<<<"d","e","p","s">>>>},
                           l \in SegmentLists(MaxSegments)}
    \cup {Url("https", l) : l \in SegmentLists(MaxSegments)}

CacheAtRest ==
  /\ fs = [f \in CacheFolders |-> AbsentDir]
  /\ cache_setting = [r \in Runs |-> "Use"]
  /\ previously_reloaded_packages = [r \in Runs |-> {}]
  /\ run = [p \in Tasks |-> "run1"]
  /\ pc = [p \in Tasks |-> "idle"]
  /\ op = [p \in Tasks |-> "none"]
  /\ folder = [p \in Tasks |-> NoFolder]
  /\ written = [p \in Tasks |-> 0]
  /\ err = [p \in Tasks |-> NoErr]
  /\ result = [p \in Tasks |-> NoResult]
  /\ calls = 0
  /\ found_sync_lock = [p \in Tasks |-> FALSE]
  /\ fetches = [r \in Runs |-> [nv \in Packages |-> 0]]

InitCodec ==
  /\ CacheAtRest
  /\ codec = NoCodec
  /\ compile = NoCompile

\* cache.package_folder_for_id(&folder_id, &registry_url)
call_package_folder_for_id(folder_id) ==
  /\ codec.stage = "start"
  /\ codec' = [codec EXCEPT !.stage = "folder", !.folder_id = folder_id,
                 !.package_folder = package_folder_for_id(folder_id, NpmRegistry)]
  /\ UNCHANGED <<cacheVars, compile>>

\* the specifier of the folder or of a file below it
specifier_in_folder(below) ==
  /\ codec.stage = "folder"
  /\ codec' = [codec EXCEPT !.stage = "specifier",
                 !.specifier = from_file_path(codec.package_folder \o below)]
  /\ UNCHANGED <<cacheVars, compile>>

\* a specifier that comes from elsewhere
other_specifier ==
  /\ codec.stage = "start"
  /\ \E specifier \in OtherSpecifiers :
       codec' = [codec EXCEPT !.stage = "specifier", !.specifier = specifier]
  /\ UNCHANGED <<cacheVars, compile>>

\* cache.resolve_package_folder_id_from_specifier(&specifier, &registry_url)
call_resolve_package_folder_id_from_specifier ==
  /\ codec.stage = "specifier"
  /\ codec' = [codec EXCEPT !.stage = "resolved",
                 !.found = maybe_resolve_package_folder_id_from_specifier(
                             codec.specifier, NpmRegistry),
                 !.resolved = resolve_package_folder_id_from_specifier(
                                codec.specifier, NpmRegistry)]
  /\ UNCHANGED <<cacheVars, compile>>

NextCodec ==
  \/ \E folder_id \in CodecFolderIds : call_package_folder_for_id(folder_id)
  \/ \E below \in Belows : specifier_in_folder(below)
  \/ other_specifier
  \/ call_resolve_package_folder_id_from_specifier

SpecCodec == InitCodec /\ [][NextCodec]_vars

(***************************************************************************)
(* cli/tools/compile.rs: the output path of `deno compile`                 *)
(***************************************************************************)
\* std::path::is_separator on the host
is_separator(c, windows) == c = "/" \/ (windows /\ c = "\\")

\* the pieces of a path between its separators
RECURSIVE pieces(_, _)
pieces(path, windows) ==
  LET seps == {i \in 1..Len(path) : is_separator(path[i], windows)} IN
  IF seps = {}
    THEN <<path>>
    ELSE LET i == CHOOSE j \in seps : \A k \in seps : j <= k
         IN <<SubSeq(path, 1, i - 1)>>
              \o pieces(SubSeq(path, i + 1, Len(path)), windows)

IsNormal(piece) == piece # <<>> /\ piece # <<".">>

\* Path::components without the root and the current directory
components(path, windows) == SelectSeq(pieces(path, windows), IsNormal)

\* Path::file_name: the last component, unless that is ".."
file_name(path, windows) ==
  LET cs == components(path, windows) IN
  IF cs = <<>> \/ cs[Len(cs)] = <<".", ".">>
    THEN None
    ELSE Some(cs[Len(cs)])

\* the file name before and after its last dot; all of it is the stem when
\* it has no dot or only a leading one
rsplit_file_at_dot(file) ==
  LET dots == Positions(file, ".") IN
  IF dots = {}
    THEN <<file, None>>
    ELSE LET i == CHOOSE j \in dots : \A k \in dots : j >= k IN
         IF i = 1
           THEN <<file, None>>
           ELSE <<SubSeq(file, 1, i - 1), Some(SubSeq(file, i + 1, Len(file)))>>

\* Path::extension
extension(path, windows) ==
  LET file == file_name(path, windows) IN
  IF IsSome(file) THEN rsplit_file_at_dot(file[2])[2] ELSE None

\* Path::file_stem
file_stem(path, windows) ==
  LET file == file_name(path, windows) IN
  IF IsSome(file) THEN Some(rsplit_file_at_dot(file[2])[1]) ELSE None

\* the path up to the end of its file name: without the separators and the
\* "." components that follow it
RECURSIVE up_to_file_name(_, _)
up_to_file_name(path, windows) ==
  LET n == Len(path) IN
  IF n = 0 THEN path
  ELSE IF is_separator(path[n], windows)
    THEN up_to_file_name(SubSeq(path, 1, n - 1), windows)
  ELSE IF path[n] = "." /\ n > 1 /\ is_separator(path[n - 1], windows)
    THEN up_to_file_name(SubSeq(path, 1, n - 1), windows)
  ELSE path

\* Path::with_extension: the path cut after the file stem, then "." and the
\* extension; the path itself when it has no file name
with_extension(path, ext, windows) ==
  LET file == file_name(path, windows) IN
  IF ~IsSome(file)
    THEN path
    ELSE LET stem == file_stem(path, windows)[2]
             whole == up_to_file_name(path, windows)
             cut == SubSeq(whole, 1, Len(whole) - Len(file[2]) + Len(stem))
         IN IF ext = <<>> THEN cut ELSE cut \o <<".">> \o ext

\* str::contains
contains(text, pattern) ==
  \E i \in 1..(Len(text) - Len(pattern) + 1) :
    SubSeq(text, i, i + Len(pattern) - 1) = pattern

Exe == <<"e","x","e">>
Windows == <<"w","i","n","d","o","w","s">>

\* Some(target) => target.contains("windows"), None => cfg!(windows)
is_windows(target, windows) ==
  IF IsSome(target) THEN contains(target[2], Windows) ELSE windows

\* a version that replaces the extension
get_os_specific_filepath_Replacing(output, target, windows) ==
  IF /\ is_windows(target, windows)
     /\ extension(output, windows) # Some(Exe)
    THEN with_extension(output, Exe, windows)
    ELSE output

get_os_specific_filepath(output, target, windows) ==
  IF /\ is_windows(target, windows)
     /\ (IF IsSome(extension(output, windows))
           THEN extension(output, windows)[2] ELSE <<>>) # Exe
    THEN IF IsSome(extension(output, windows))
           THEN with_extension(output,
                               extension(output, windows)[2] \o <<".">> \o Exe,
                               windows)
           ELSE with_extension(output, Exe, windows)
    ELSE output

\* the length of the output paths
MaxOutputLen == 5

PathChars == {"e", "x", ".", "/"}

RECURSIVE PathsOfLen(_)
PathsOfLen(n) ==
  IF n = 0 THEN {<<>>}
  ELSE {Append(path, c) : path \in PathsOfLen(n - 1), c \in PathChars}

\* the output paths: the short ones and those of the tests
Outputs ==
  UNION {PathsOfLen(n) : n \in 0..MaxOutputLen}
    \cup {<<"C",":","\\","m","y","-","e","x","e">>,
          <<"C",":","\\","m","y","-","e","x","e",".","e","x","e">>,
          <<"C",":","\\","m","y","-","e","x","e",".","0",".","1",".","2">>,
          <<"m","y","-","e","x","e","-","0",".","1",".","2">>}

Targets ==
  {None,
   Some(<<"x","8","6","_","6","4","-","p","c","-","w","i","n","d","o","w","s","-","m","s","v","c">>),
   Some(<<"x","8","6","_","6","4","-","u","n","k","n","o","w","n","-","l","i","n","u","x","-","g","n","u">>),
   Some(<<"a","a","r","c","h","6","4","-","a","p","p","l","e","-","d","a","r","w","i","n">>)}

InitCompile ==
  /\ CacheAtRest
  /\ codec = NoCodec
  /\ compile \in [stage : {"start"}, output : Outputs, target : Targets,
                  windows : BOOLEAN, filepath : {<<>>}, again : {<<>>}]

\* get_os_specific_filepath(output, &compile_flags.target)
call_get_os_specific_filepath ==
  /\ compile.stage = "start"
  /\ compile' = [compile EXCEPT !.stage = "once",
                   !.filepath = get_os_specific_filepath(
                                  compile.output, compile.target, compile.windows)]
  /\ UNCHANGED <<cacheVars, codec>>

\* the function applied to its own result
call_get_os_specific_filepath_again ==
  /\ compile.stage = "once"
  /\ compile' = [compile EXCEPT !.stage = "twice",
                   !.again = get_os_specific_filepath(
                               compile.filepath, compile.target, compile.windows)]
  /\ UNCHANGED <<cacheVars, codec>>

NextCompile ==
  \/ call_get_os_specific_filepath
  \/ call_get_os_specific_filepath_again

SpecCompile == InitCompile /\ [][NextCompile]_vars

(***************************************************************************)
(* cli/tools/compile.rs: the checks before the executable is written       *)
(***************************************************************************)
\* the depth of the output paths
MaxDepth == 3

\* the compilations of one output path
MaxCompiles == 3

\* what is at a path: nothing, a directory, a file that is no executable of
\* the compiler, an executable of the compiler
Kinds == {"absent", "dir", "file", "standalone"}

\* an output path n components deep
PathOfDepth(n) == [i \in 1..n |-> IF i = n THEN "app" ELSE "out"]

OutputPaths == {PathOfDepth(n) : n \in 1..MaxDepth}

\* the path and the directories above it
Prefixes(path) == {SubSeq(path, 1, n) : n \in 1..Len(path)}

\* Path::parent of a path with a file name
parent(path) == SubSeq(path, 1, Len(path) - 1)

\* what can be on disk at and above the path: there is nothing below what is
\* not a directory
Disks(path) ==
  {disk \in [Prefixes(path) -> Kinds] :
     \A q \in Prefixes(path) :
       (Len(q) > 1 /\ disk[q] # "absent") => disk[parent(q)] = "dir"}

\* Path::exists; the empty path is no file
exists(disk, path) == path # <<>> /\ disk[path] # "absent"

\* Path::is_dir
is_dir(disk, path) == path # <<>> /\ disk[path] = "dir"

\* Path::is_file
is_file(disk, path) == path # <<>> /\ disk[path] \in {"file", "standalone"}

\* every file taken for an executable of the compiler
is_standalone_binary_Always(disk, path) == TRUE

\* crate::standalone::is_standalone_binary
is_standalone_binary(disk, path) == disk[path] = "standalone"

\* std::fs::create_dir_all can succeed: nothing at or above the directory is
\* a file
CanCreateDirAll(disk, base) ==
  \A q \in Prefixes(base) : disk[q] \in {"absent", "dir"}

\* the disk after std::fs::create_dir_all has made the first n components
\* of the directory
DirsCreated(disk, base, n) ==
  [q \in DOMAIN disk |->
     IF Len(q) <= n /\ q \in Prefixes(base) THEN "dir" ELSE disk[q]]

NoOutcome == [status |-> "none", kind |-> "none"]

CompileOk == [status |-> "ok", kind |-> "none"]

CompileErr(kind) == [status |-> "err", kind |-> kind]

InitValidate ==
  /\ CacheAtRest
  /\ codec = NoCodec
  /\ \E output_path \in OutputPaths :
       compile \in [stage : {"start"}, output_path : {output_path},
                    disk : Disks(output_path), result : {NoOutcome},
                    compiles : {0}]

\* validate_output_path(&output_path)?
validate_output_path ==
  LET output_path == compile.output_path
      disk == compile.disk
      output_base == parent(output_path)
      Bail(kind) ==
        compile' = [compile EXCEPT !.stage = "done", !.result = CompileErr(kind)]
      Pass(after) ==
        compile' = [compile EXCEPT !.stage = "validated", !.disk = after,
                                   !.result = CompileOk]
      Broken(kind, after) ==
        compile' = [compile EXCEPT !.stage = "done", !.disk = after,
                                   !.result = CompileErr(kind)]
  IN
  /\ compile.stage = "start"
  /\ IF exists(disk, output_path)
       THEN IF is_dir(disk, output_path)
              THEN Bail("IsDirectory")
            ELSE IF ~is_standalone_binary(disk, output_path)
              THEN Bail("NotStandalone")
            ELSE \/ Pass([disk EXCEPT ![output_path] = "absent"])
                 \/ Bail("RemoveFile")
       ELSE IF exists(disk, output_base) /\ is_file(disk, output_base)
              THEN Bail("ParentIsFile")
            ELSE \/ /\ CanCreateDirAll(disk, output_base)
                    /\ Pass(DirsCreated(disk, output_base, Len(output_base)))
                 \/ /\ ~CanCreateDirAll(disk, output_base)
                    /\ Bail("CreateDir")
                 \/ \E n \in 0..(Len(output_base) - 1) :
                      /\ CanCreateDirAll(disk, output_base)
                      /\ ~is_dir(disk, output_base)
                      /\ Broken("CreateDir", DirsCreated(disk, output_base, n))
  /\ UNCHANGED <<cacheVars, codec>>

\* std::fs::File::create(&output_path)?
file_create ==
  /\ compile.stage = "validated"
  /\ \/ compile' = [compile EXCEPT !.stage = "created",
                                   !.disk[compile.output_path] = "file"]
     \/ compile' = [compile EXCEPT !.stage = "done",
                                   !.result = CompileErr("Create")]
  /\ UNCHANGED <<cacheVars, codec>>

\* binary_writer.write_bin(&mut file, ..).await.with_context(..)?
write_bin ==
  /\ compile.stage = "created"
  /\ \/ compile' = [compile EXCEPT !.stage = "done",
                                   !.disk[compile.output_path] = "standalone"]
     \/ compile' = [compile EXCEPT !.stage = "done",
                                   !.result = CompileErr("Writing")]
  /\ UNCHANGED <<cacheVars, codec>>

\* deno compile is run again for the same output path
compile_again ==
  /\ compile.stage = "done"
  /\ compile.compiles + 1 < MaxCompiles
  /\ compile' = [compile EXCEPT !.stage = "start", !.result = NoOutcome,
                                !.compiles = @ + 1]
  /\ UNCHANGED <<cacheVars, codec>>

NextValidate ==
  \/ validate_output_path
  \/ file_create
  \/ write_bin
  \/ compile_again

SpecValidate == InitValidate /\ [][NextValidate]_vars

(***************************************************************************)
(* Properties                                                              *)
(***************************************************************************)
InProtocol(p) == pc[p] \in {"create_dir", "sync_lock", "action", "cleanup"}

\* the step is task p's call returning
Returns(p) == pc[p] # "idle" /\ pc'[p] = "idle"

\* C1: a package folder that exists and holds no sync lock file is fully
\* populated, whatever the interleaving of the ensure calls.
C1_ValidFolderIsPopulated ==
  \A f \in CacheFolders : FolderIsValid(fs[f]) => FullyPopulated(fs[f])

\* C2: a run that finds the sync lock file already there aborts without
\* running its action, so no two runs are inside their population action on
\* the same folder at once.
C2_OneRunInAction ==
  \A p, q \in Tasks :
    (p # q /\ pc[p] = "action" /\ pc[q] = "action") =>
      output_folder(p) # output_folder(q)

\* C3: when with_folder_sync_lock returns success the target directory
\* exists, holds the complete content and holds no sync lock file.
C3_SuccessMeansPopulated ==
  [][\A p \in Tasks :
       (Returns(p) /\ result'[p].kind = "populated") =>
          /\ fs'[output_folder(p)].exists
          /\ FullyPopulated(fs'[output_folder(p)])
          /\ ~fs'[output_folder(p)].sync_lock]_vars

\* the combined error of a failed rollback: it names the package, the
\* original failure, the removal failure and the folder
IsCleanupFailure(res, cause, f) ==
  /\ res.status = "err"
  /\ res.kind = "CleanupFailed"
  /\ res.cause = cause
  /\ res.remove_err
  /\ res.message_package = f.nv
  /\ res.message_folder = FolderPath[f]

\* C4: when the population action fails the protocol returns an error and the
\* target directory is gone, unless deleting it failed: then the combined
\* error is returned and the sync lock file and the partial content remain.
C4_FailedActionRollsBack ==
  [][\A p \in Tasks :
       (Returns(p) /\ pc[p] = "cleanup" /\ err[p].kind = "Action") =>
          /\ result'[p].status = "err"
          /\ \/ ~fs'[output_folder(p)].exists
             \/ /\ IsCleanupFailure(result'[p], "Action", folder[p])
                /\ fs'[output_folder(p)].exists
                /\ fs'[output_folder(p)].sync_lock
                /\ fs'[output_folder(p)].files = fs[output_folder(p)].files]_vars

\* the step is task p running the existence check of its entry point
Checks(p) ==
  /\ pc[p] \in {"ensure_package", "ensure_copy_package"}
  /\ pc'[p] # pc[p]
  /\ result'[p].status # "panic"

\* C5: no entry point returns a cache hit for a folder that holds the sync
\* lock file, under any cache setting and whatever the reload set and the
\* folder hold: the folder is populated again, or refused under cache-only.
C5_SyncLockIsNeverAHit ==
  [][\A p \in Tasks :
       (Checks(p) /\ fs[output_folder(p)].sync_lock) =>
          /\ result'[p].kind # "cache_hit"
          /\ \/ pc'[p] \in {"fetch", "create_dir"}
             \/ /\ op[p] = "ensure_package"
                /\ cache_setting[run[p]] = "Only"
                /\ result'[p].kind = "NotCached"]_vars

\* C6: within one run, concurrent ensure_package tasks for one package start
\* at most one fetch of it.
C6_OneFetchPerRun ==
  \A r \in Runs, nv \in Packages : fetches[r][nv] <= 1

\* C8: under cache-only, ensure_package for a folder that is absent or holds
\* the sync lock file fails with NotCached naming the package, starts no
\* fetch and leaves the filesystem alone.
C8_CacheOnlyFailsWithoutFetch ==
  [][\A p \in Tasks :
       (Checks(p) /\ op[p] = "ensure_package" /\ cache_setting[run[p]] = "Only"
          /\ ~FolderIsValid(fs[output_folder(p)])) =>
          /\ pc'[p] = "idle"
          /\ result'[p].status = "err"
          /\ result'[p].kind = "NotCached"
          /\ result'[p].message_package.name = folder[p].nv.name
          /\ fetches' = fetches
          /\ fs' = fs]_vars

\* C10: ensure_copy_package with copy index 0 fails fast on its assertion,
\* before any filesystem call: nothing is created on disk.
C10_CopyIndexZeroPanics ==
  [][\A p \in Tasks :
       (pc[p] = "ensure_copy_package" /\ pc'[p] # pc[p]
          /\ folder[p].copy_index = 0) =>
          /\ result'[p] = PanicResult
          /\ pc'[p] = "idle"
          /\ fs' = fs]_vars

\* the step is task p's ensure_package deciding between hit and fetch under
\* a force-reload setting
ReloadCheck(p) ==
  /\ Checks(p)
  /\ op[p] = "ensure_package"
  /\ cache_setting[run[p]] = "ReloadAll"

PopulationWentThrough(res) ==
  /\ res.status # "panic"
  /\ res.kind # "cache_hit"
  /\ res.cause \notin {"NotCached", "Fetch", "NoTarball", "Action"}

ActionContent(p, disk) ==
  IF op[p] = "ensure_package"
    THEN Files
    ELSE disk[PackageFolder[folder[p].nv]].files

C5_Witness ==
  \E p \in Tasks :
    /\ found_sync_lock[p]
    /\ fs[output_folder(p)].sync_lock
    /\ pc[p] \in {"fetch", "create_dir"}

\* a cache-only ensure_package was refused for a folder that is not valid
C8_Witness ==
  \E p \in Tasks :
    /\ cache_setting[run[p]] = "Only"
    /\ pc[p] = "idle"
    /\ op[p] = "ensure_package"
    /\ result[p].kind = "NotCached"
    /\ ~FolderIsValid(fs[output_folder(p)])
    /\ fetches[run[p]][folder[p].nv] = 0

\* an ensure_copy_package call with copy index 0 ended in the assertion
C10_Witness ==
  \E p \in Tasks :
    /\ op[p] = "ensure_copy_package"
    /\ folder[p].copy_index = 0
    /\ result[p] = PanicResult

(***************************************************************************)
(* Properties of the entry points                                          *)
(***************************************************************************)
\* C14: every error ensure_package or ensure_copy_package returns, whatever
\* its cause, is annotated with the name and the version of the package.
C14_ErrorsNameThePackage ==
  [][\A p \in Tasks :
       (Returns(p) /\ result'[p].status = "err") =>
          \/ result'[p].context = folder[p].nv
          \/ result'[p].message_package = folder[p].nv]_vars

\* the step is the existence check of a call of p for a folder that is valid
\* and that an ensure call of another task of p's run has populated
LaterCheck(p) ==
  /\ Checks(p)
  /\ FolderIsValid(fs[output_folder(p)])
  /\ \E q \in Tasks \ {p} :
       /\ run[q] = run[p]
       /\ pc[q] = "idle"
       /\ folder[q] = folder[p]
       /\ result[q].status = "ok"
       /\ result[q].kind = "populated"

\* C16: once an ensure call of the run has made a folder valid,
\* every later ensure_package or ensure_copy_package call of the run for that
\* folder is a cache hit that populates nothing, whatever the cache setting.
C16_ValidFolderIsAHit ==
  [][\A p \in Tasks :
       LaterCheck(p) =>
          /\ result'[p].kind = "cache_hit"
          /\ pc'[p] = "idle"
          /\ fetches' = fetches]_vars

\* what the code does: such a later call is a cache hit when it is an
\* ensure_package call, whatever the cache setting, and when it is an
\* ensure_copy_package call under a setting that allows reuse; under
\* force-reload ensure_copy_package, which does not consult
\* previously_reloaded_packages, populates the folder again.
ValidFolderIsAHitButForReloadedCopy ==
  [][\A p \in Tasks :
       LaterCheck(p) =>
          IF op[p] = "ensure_package" \/ cache_setting[run[p]] # "ReloadAll"
            THEN /\ result'[p].kind = "cache_hit"
                 /\ pc'[p] = "idle"
                 /\ fetches' = fetches
            ELSE /\ pc'[p] = "create_dir"
                 /\ fetches' = fetches]_vars

\* under force-reload one task populated the folder and the other task's
\* ensure_package call for it was a cache hit
ReloadedFolderIsAHit ==
  \E p, q \in Tasks :
    /\ p # q /\ run[p] = run[q]
    /\ cache_setting[run[p]] = "ReloadAll"
    /\ pc[p] = "idle" /\ pc[q] = "idle"
    /\ folder[p] = folder[q]
    /\ op[p] = "ensure_package"
    /\ result[q].kind = "populated"
    /\ result[p].kind = "cache_hit"
    /\ fetches[run[p]][folder[p].nv] = 1
    /\ calls = 2

\* the step is a step of the population action of task p
ActionStep(p) == pc[p] = "action" /\ written'[p] = written[p] + 1

\* C17: only folders of copy index 0 are populated by the extraction of
\* fetched bytes, a folder of another copy index is populated only by links
\* to the files of the index-0 folder of its package, and ensure_copy_package
\* starts no fetch.
C17_CopiesAreLinkedNeverFetched ==
  [][\A p \in Tasks :
       LET original == fs[PackageFolder[folder[p].nv]]
           added == fs'[output_folder(p)].files \ fs[output_folder(p)].files
       IN
       /\ ActionStep(p) =>
            IF folder[p].copy_index = 0
              THEN op[p] = "ensure_package" /\ added \subseteq {written'[p]}
              ELSE op[p] = "ensure_copy_package" /\ added \subseteq original.files
       /\ (pc[p] # "fetch" /\ pc'[p] = "fetch") =>
            op[p] = "ensure_package" /\ folder[p].copy_index = 0
       /\ (op[p] = "ensure_copy_package" /\ pc'[p] # pc[p]) =>
            fetches' = fetches /\ pc'[p] # "fetch"]_vars

\* an ensure_copy_package call populated its folder and no fetch was started
C17_Witness ==
  \E p \in Tasks :
    /\ op[p] = "ensure_copy_package"
    /\ folder[p].copy_index # 0
    /\ pc[p] = "idle"
    /\ result[p].kind = "populated"
    /\ FullyPopulated(fs[output_folder(p)])
    /\ \A r \in Runs, nv \in Packages : fetches[r][nv] = 0

\* C18: the check and the insert on the set of reloaded packages are one
\* step and no task holds the set while it fetches or extracts: under
\* force-reload, of the checks of one run for one package exactly the first
\* finds the package not reloaded yet and starts a fetch, and every other
\* finds it reloaded, hence a valid folder a cache hit.
C18_OneCheckFindsNotReloaded ==
  [][\A p \in Tasks :
       ReloadCheck(p) =>
         LET r == run[p]
             nv == folder[p].nv
         IN
         /\ nv \in previously_reloaded_packages'[r]
         /\ nv \notin previously_reloaded_packages[r] <=> fetches[r][nv] = 0
         /\ nv \notin previously_reloaded_packages[r] => pc'[p] = "fetch"
         /\ (nv \in previously_reloaded_packages[r]
               /\ FolderIsValid(fs[output_folder(p)])) =>
              result'[p].kind = "cache_hit"]_vars

\* a check of the run was a cache hit while the task whose check came first
\* is still fetching
C18_Witness ==
  \E p, q \in Tasks :
    /\ p # q /\ run[p] = run[q]
    /\ cache_setting[run[p]] = "ReloadAll"
    /\ pc[q] = "fetch"
    /\ pc[p] = "idle"
    /\ op[p] = "ensure_package"
    /\ result[p].kind = "cache_hit"
    /\ calls = 2

\* the step is an existence check of ensure_package
PackageCheck(p) == Checks(p) /\ op[p] = "ensure_package"

\* in this step the set of reloaded packages, empty before the first call,
\* loses nothing
ReloadedOnlyGrows ==
  /\ calls = 0 => \A r \in Runs : previously_reloaded_packages[r] = {}
  /\ \A r \in Runs :
       previously_reloaded_packages[r] \subseteq previously_reloaded_packages'[r]

\* C19 as stated: every existence check of ensure_package leaves the package
\* in the set of reloaded packages, under every cache setting; the set is
\* empty at construction and nothing is ever removed from it.
C19_EveryCheckInserts ==
  [][/\ ReloadedOnlyGrows
     /\ \A p \in Tasks :
          PackageCheck(p) =>
            folder[p].nv \in previously_reloaded_packages'[run[p]]]_vars

\* C19, amended: the check inserts the package when the cache setting does
\* not allow reuse by itself, and leaves the set as it is when the setting
\* allows reuse; the set is empty at construction and nothing is ever removed.
C19_CheckInsertsUnlessPolicyAllows ==
  [][/\ ReloadedOnlyGrows
     /\ \A p \in Tasks :
          PackageCheck(p) =>
            IF should_use_for_npm_package(cache_setting[run[p]], folder[p].nv.name)
              THEN UNCHANGED previously_reloaded_packages
              ELSE previously_reloaded_packages'[run[p]] =
                     previously_reloaded_packages[run[p]] \cup {folder[p].nv}]_vars

\* an ensure_package call under a setting that allows reuse made its check
\* and the set is still empty, and another under force-reload has inserted
C19_Witness ==
  \E p, q \in Tasks :
    /\ p # q
    /\ op[p] = "ensure_package" /\ op[q] = "ensure_package"
    /\ pc[p] = "idle" /\ result[p].kind = "cache_hit"
    /\ cache_setting[run[p]] = "Use"
    /\ previously_reloaded_packages[run[p]] = {}
    /\ cache_setting[run[q]] = "ReloadAll"
    /\ pc[q] = "fetch"
    /\ folder[q].nv \in previously_reloaded_packages[run[q]]

(***************************************************************************)
(* Properties of the path functions                                        *)
(***************************************************************************)
\* the lookup of a folder was followed by the resolution of a specifier in it
RoundTrip == codec.stage = "resolved" /\ codec.folder_id # NoFolder

\* C11: for every valid name (unscoped or scoped, lower-case or mixed-case),
\* version and copy index, resolving the URL of the folder that
\* package_folder_for_id returns, or of a file below it, under the same root
\* and registry gives back exactly that name, version and copy index.
C11_ResolveInvertsFolder ==
  RoundTrip => codec.resolved = Ok(codec.folder_id)

C11_Witness ==
  /\ RoundTrip
  /\ codec.folder_id.nv.name = <<"@","t","y","p","e","s","/","J","S","O","N">>
  /\ codec.folder_id.copy_index = U8Max
  /\ Len(codec.specifier.path) > Len(codec.package_folder)
  /\ codec.resolved = Ok(codec.folder_id)

\* a folder was looked up for the identity codec.folder_id
LookedUp == codec.stage = "folder"

Json == <<"j","s","o","n">>
UpperJson == <<"J","S","O","N">>
TypesUpperJson == <<"@","t","y","p","e","s","/","J","S","O","N">>
RegistryDirname == <<"r","e","g","i","s","t","r","y",".","n","p","m","j","s",".","o","r","g">>

\* the folder the tests expect for an identity of theirs
ExpectedFolder(name, version, copy_index) ==
  IF name = Json /\ version = Version(1, 2, 5) /\ copy_index = 0
    THEN <<RegistryDirname, Json, <<"1",".","2",".","5">>>>
  ELSE IF name = Json /\ version = Version(1, 2, 5) /\ copy_index = 1
    THEN <<RegistryDirname, Json, <<"1",".","2",".","5","_","1">>>>
  ELSE IF name = UpperJson /\ version = Version(2, 1, 5) /\ copy_index = 0
    THEN <<RegistryDirname, <<"_","j","j","j","u","6","t","q">>, <<"2",".","1",".","5">>>>
  ELSE IF name = TypesUpperJson /\ version = Version(2, 1, 5) /\ copy_index = 0
    THEN <<RegistryDirname, <<"_","i","b","2","h","s","4","d","f","o","m","x","u","u","u","2","p","j","y">>, <<"2",".","1",".","5">>>>
  ELSE <<>>

\* C12: package_folder_for_id returns <root>/<registry dirname>/<name path>/
\* <version> for copy index 0 and .../<version>_<index> for any other index;
\* the name path is the name split on "/" when the name is lower-case and
\* otherwise the single segment "_" + lower-cased unpadded base32 of the
\* whole name, as the tests of the module expect it.
C12_FolderLayout ==
  LookedUp =>
    LET id == codec.folder_id
        name == id.nv.name
        path == codec.package_folder
        inside == SubSeq(path, Len(root_dir) + 1, Len(path))
        name_path == SubSeq(inside, 2, Len(inside) - 1)
        last == inside[Len(inside)]
        expected == ExpectedFolder(name, id.nv.version, id.copy_index)
    IN
    /\ SubSeq(path, 1, Len(root_dir)) = root_dir
    /\ inside[1] = RegistryDirname
    /\ expected # <<>> => inside = expected
    /\ id.copy_index = 0 => last = version_to_string(id.nv.version)
    /\ id.copy_index # 0 =>
         /\ Len(last) > Len(version_to_string(id.nv.version)) + 1
         /\ SubSeq(last, 1, Len(version_to_string(id.nv.version)) + 1)
              = version_to_string(id.nv.version) \o <<"_">>
         /\ digits_value(SubSeq(last, Len(version_to_string(id.nv.version)) + 2,
                                Len(last))) = id.copy_index
    /\ (\A i \in 1..Len(name) : ~IsUpper(name[i])) =>
         /\ \A i \in 1..Len(name_path) : "/" \notin {name_path[i][j] : j \in 1..Len(name_path[i])}
         /\ join(name_path, <<"/">>) = name
    /\ (\E i \in 1..Len(name) : IsUpper(name[i])) =>
         /\ Len(name_path) = 1
         /\ Head(name_path[1]) = "_"
         /\ \A i \in 2..Len(name_path[1]) :
              IsLower(name_path[1][i]) \/ IsDigit(name_path[1][i])
         /\ Len(name_path[1]) = 1 + (8 * Len(name) + 4) \div 5

C12_Witness ==
  /\ LookedUp
  /\ codec.folder_id.nv.name = TypesUpperJson
  /\ codec.folder_id.nv.version = Version(2, 1, 5)
  /\ codec.folder_id.copy_index = 1
  /\ codec.package_folder =
       root_dir \o <<RegistryDirname, <<"_","i","b","2","h","s","4","d","f","o","m","x","u","u","u","2","p","j","y">>, <<"2",".","1",".","5","_","1">>>>

\* the segments of a specifier's path below the registry folder, <<>> when
\* it is not of a file below that folder
BelowRegistry(specifier) ==
  LET dir == registry_folder(NpmRegistry) IN
  IF /\ specifier.scheme = "file"
     /\ Len(specifier.path) > Len(dir)
     /\ SubSeq(specifier.path, 1, Len(dir)) = dir
    THEN SubSeq(specifier.path, Len(dir) + 1, Len(specifier.path))
    ELSE <<>>

InAlphabet(c) == upper(c) \in {RFC4648[i] : i \in DOMAIN RFC4648}

\* the text is a number a u8 holds
IsU8(text) == AllDigits(text) /\ digits_value(text) <= U8Max

\* the text is major.minor.patch
IsVersion(text) ==
  \E i, j \in 1..Len(text) :
    /\ i < j
    /\ text[i] = "." /\ text[j] = "."
    /\ AllDigits(SubSeq(text, 1, i - 1))
    /\ AllDigits(SubSeq(text, i + 1, j - 1))
    /\ AllDigits(SubSeq(text, j + 1, Len(text)))

\* the failures of a resolution: the specifier is not below the registry
\* folder, its encoded name is not base32, it has fewer than two segments,
\* and, for a name that is neither encoded nor scoped, its copy index is no
\* u8 or its version does not parse
NotBelowRegistry(specifier) == BelowRegistry(specifier) = <<>>

UndecodableName(specifier) ==
  LET below == BelowRegistry(specifier) IN
  /\ below # <<>>
  /\ starts_with(below[1], <<"_">>)
  /\ \E i \in 2..Len(below[1]) : ~InAlphabet(below[1][i])

TooFewSegments(specifier) == Len(BelowRegistry(specifier)) = 1

PlainName(below) ==
  /\ Len(below) >= 2
  /\ ~starts_with(below[1], <<"_">>)
  /\ ~starts_with(below[1], <<"@">>)

BadCopyIndex(specifier) ==
  LET below == BelowRegistry(specifier) IN
  /\ PlainName(below)
  /\ \E i \in 1..Len(below[2]) :
       /\ below[2][i] = "_"
       /\ \A j \in 1..(i - 1) : below[2][j] # "_"
       /\ ~IsU8(SubSeq(below[2], i + 1, Len(below[2])))

BadVersion(specifier) ==
  LET below == BelowRegistry(specifier) IN
  /\ PlainName(below)
  /\ \A i \in 0..Len(below[2]) :
       (i = Len(below[2]) \/ below[2][i + 1] = "_") =>
         ~IsVersion(SubSeq(below[2], 1, i))

ResolutionFails(specifier) ==
  \/ NotBelowRegistry(specifier)
  \/ UndecodableName(specifier)
  \/ TooFewSegments(specifier)
  \/ BadCopyIndex(specifier)
  \/ BadVersion(specifier)

Resolved == codec.stage = "resolved"

\* C13 as stated: the resolution of a specifier reports every failure (not
\* below the registry folder, undecodable base32, fewer than two segments, a
\* copy index that is no small unsigned integer, an unparsable version) as
\* the absence of a result, never as an error to the caller.
C13_FailureIsNeverAnError ==
  (Resolved /\ ResolutionFails(codec.specifier)) => ~IsErr(codec.resolved)

\* C13: maybe_resolve_package_folder_id_from_specifier answers every such
\* failure with None, and resolve_package_folder_id_from_specifier, the
\* function callers have, makes of that None the error "could not find npm
\* package for <specifier>"; neither panics.
C13_FailureIsNoneThenAnError ==
  (Resolved /\ ResolutionFails(codec.specifier)) =>
    /\ codec.found = None
    /\ codec.resolved = Err("could not find npm package for", codec.specifier)

C13_Witness ==
  /\ Resolved
  /\ BadCopyIndex(codec.specifier)
  /\ ~BadVersion(codec.specifier)
  /\ codec.found = None
  /\ IsErr(codec.resolved)

(***************************************************************************)
(* Properties of the output path                                           *)
(***************************************************************************)
\* the output path with ".exe" after its file name
ExeAppended(output, windows) ==
  LET cs == components(output, windows) IN
  IF cs = <<>> THEN cs
  ELSE SubSeq(cs, 1, Len(cs) - 1) \o <<cs[Len(cs)] \o <<".">> \o Exe>>

\* what the function does on an output path that has a file name
OsSpecific ==
  LET output == compile.output
      path == compile.filepath
      w == compile.windows
  IN IF is_windows(compile.target, w)
       THEN /\ extension(path, w) = Some(Exe)
            /\ extension(output, w) = Some(Exe) => path = output
            /\ extension(output, w) # Some(Exe) =>
                 components(path, w) = ExeAppended(output, w)
       ELSE path = output

\* C15 as stated: get_os_specific_filepath leaves the output path as it is
\* when the target is not Windows; for a Windows target (one that contains
\* "windows", or none on a Windows host) it returns a path of extension
\* "exe", the output path itself when that has the extension already and else
\* the output path with ".exe" after any extension it has; applied twice it
\* gives what it gives applied once.
C15_ExeOnWindows ==
  /\ compile.stage # "start" => OsSpecific
  /\ compile.stage = "twice" => compile.again = compile.filepath

\* C15, amended: this holds for an output path that has a file name; a path
\* without one (empty, a root, ending in "..") is returned as it is for
\* every target.
C15_ExeOnWindowsForAFileName ==
  /\ compile.stage # "start" =>
       IF IsSome(file_name(compile.output, compile.windows))
         THEN OsSpecific
         ELSE compile.filepath = compile.output
  /\ compile.stage = "twice" => compile.again = compile.filepath

C15_Witness ==
  /\ compile.stage = "twice"
  /\ compile.target = None /\ compile.windows
  /\ compile.output = <<"e",".","x">>
  /\ compile.filepath = <<"e",".","x",".","e","x","e">>
  /\ compile.again = compile.filepath

(***************************************************************************)
(* Properties of the path derivation                                       *)
(***************************************************************************)
IsPrefix(dir, path) ==
  Len(dir) <= Len(path) /\ SubSeq(path, 1, Len(dir)) = dir

IsEncoded(name) == to_lowercase(name) # name

\* C20: for the fixed root and registry, the folder looked up for one
\* identity (name, version, copy index) is the folder of no other identity,
\* and the folder of a mixed-case name is neither the folder of a lower-case
\* name or of one of its versions, nor inside one.
C20_PathsAreInjective ==
  LookedUp =>
    \A other \in CodecFolderIds :
      /\ other # codec.folder_id =>
           package_folder_for_id(other, NpmRegistry) # codec.package_folder
      /\ IsEncoded(codec.folder_id.nv.name) /\ ~IsEncoded(other.nv.name) =>
           /\ ~IsPrefix(package_name_folder(other.nv.name, NpmRegistry),
                        codec.package_folder)
           /\ ~IsPrefix(package_folder_for_id(other, NpmRegistry),
                        codec.package_folder)
           /\ ~IsPrefix(package_name_folder(other.nv.name, NpmRegistry),
                        package_name_folder(codec.folder_id.nv.name, NpmRegistry))

C20_Witness ==
  /\ LookedUp
  /\ codec.folder_id.nv.name = UpperJson
  /\ codec.folder_id.copy_index = 1
  /\ codec.package_folder =
       root_dir \o <<RegistryDirname, <<"_","j","j","j","u","6","t","q">>,
                     <<"1",".","2",".","5","_","1">>>>

(***************************************************************************)
(* Properties of the rollback                                              *)
(***************************************************************************)
\* the step returns an error of with_folder_sync_lock to the caller of p
ProtocolError(p) ==
  /\ Returns(p)
  /\ result'[p].status = "err"
  /\ result'[p].cause \in {"CreateDir", "SyncLock", "Action"}

\* C21: every error return of with_folder_sync_lock, whether create_dir_all,
\* the creation of the sync lock file or the action failed, comes out of an
\* attempt to remove the whole output folder: either the attempt failed and
\* the error says so, or the folder is gone after it with everything it
\* held, content of another writer included, also when the failure was at
\* or before the creation of the sync lock file.
C21_ErrorsComeAfterRemoveDirAll ==
  [][\A p \in Tasks :
       ProtocolError(p) =>
         /\ pc[p] = "cleanup"
         /\ result'[p].cause = err[p].kind
         /\ IF result'[p].remove_err
              THEN result'[p].kind = "CleanupFailed"
              ELSE fs'[output_folder(p)] = AbsentDir]_vars

\* the creation of the sync lock file failed for one task, and its cleanup
\* removed the folder with the file another task had written into it
C21_Witness ==
  \E p, q \in Tasks :
    /\ p # q
    /\ pc[p] = "idle"
    /\ result[p].status = "err"
    /\ result[p].cause = "SyncLock"
    /\ ~result[p].remove_err
    /\ pc[q] = "action"
    /\ written[q] >= 1
    /\ folder[q] = folder[p]
    /\ fs[output_folder(q)] = AbsentDir

(***************************************************************************)
(* Properties of a failed fetch                                            *)
(***************************************************************************)
\* the step is one of an ensure_package call of p up to the outcome of its
\* download: the call itself, the check of the cache, the download
UpToTheFetch(p) ==
  /\ pc'[p] # pc[p]
  /\ \/ pc[p] = "idle" /\ pc'[p] = "ensure_package"
     \/ pc[p] = "ensure_package"
     \/ pc[p] = "fetch"

\* the download of p's call ended without bytes
FetchFailed(p) == pc[p] = "fetch" /\ pc'[p] \notin {"fetch", "create_dir"}

\* C22: when the download in ensure_package ends with an error or without
\* content, ensure_package returns an error, and no step of the call up to
\* there has changed the file system: no directory and no sync lock file is
\* created, and a valid folder that is being reloaded stays as it is.
C22_FailedFetchLeavesTheFolder ==
  [][\A p \in Tasks :
       /\ UpToTheFetch(p) => fs' = fs
       /\ FetchFailed(p) =>
            /\ Returns(p)
            /\ result'[p].status = "err"
            /\ result'[p].kind \in {"Fetch", "NoTarball"}
            /\ result'[p].context = folder[p].nv]_vars

\* a lone ensure_package call under force-reload for a valid folder failed
\* at its download, and the folder is still valid
C22_Witness ==
  \E p \in Tasks :
    /\ calls = 1
    /\ pc[p] = "idle"
    /\ op[p] = "ensure_package"
    /\ cache_setting[run[p]] = "ReloadAll"
    /\ result[p].status = "err"
    /\ result[p].kind = "NoTarball"
    /\ fetches[run[p]][folder[p].nv] = 1
    /\ fs[output_folder(p)] = ValidDir

(***************************************************************************)
(* Properties of the checks before the executable is written               *)
(***************************************************************************)
\* the step is validate_output_path
Validates == compile.stage = "start" /\ compile'.stage # "start"

\* validate_output_path returned the error and changed nothing on disk
Refused(kind) ==
  /\ compile'.result = CompileErr(kind)
  /\ compile'.stage = "done"
  /\ compile'.disk = compile.disk

\* C23: validate_output_path removes what is at the output path only when
\* that is an executable the compiler produced; when the output path is a
\* directory, is a file that is no such executable, or is missing below a
\* parent that is a file, it returns an error and leaves the disk as it is.
C23_OnlyStandaloneBinariesAreRemoved ==
  [][Validates =>
       LET output_path == compile.output_path
           disk == compile.disk
       IN /\ (disk[output_path] # "absent" /\ compile'.disk[output_path] = "absent")
               => disk[output_path] = "standalone"
          /\ \A q \in DOMAIN disk :
               (disk[q] # "absent" /\ compile'.disk[q] # disk[q])
                 => q = output_path
          /\ disk[output_path] = "dir" => Refused("IsDirectory")
          /\ disk[output_path] = "file" => Refused("NotStandalone")
          /\ (disk[output_path] = "absent" /\ Len(output_path) > 1
                /\ disk[parent(output_path)] \in {"file", "standalone"})
               => Refused("ParentIsFile")]_vars

\* the second compilation has removed the executable the first one wrote
C23_Witness ==
  /\ compile.stage = "validated"
  /\ compile.compiles = 1
  /\ compile.result = CompileOk
  /\ Len(compile.output_path) = 2
  /\ compile.disk[compile.output_path] = "absent"
  /\ compile.disk[parent(compile.output_path)] = "dir"

====
